---- MODULE Spec2Model ----
(***************************************************************************)
(* Command interpretation pipeline of friday2: CommandParser (command      *)
(* table, pattern matching, keyword inference, add_command, persistence)   *)
(* and CommandExecutor (dispatch table, result normalisation, handlers).   *)
(* Strings are TLA+ strings; a character is a string of length 1.          *)
(***************************************************************************)
EXTENDS Integers, Sequences, FiniteSets, TLC

(***************************************************************************)
(* Python values.  None is written "None"; text that reaches the regex     *)
(* engine is lower-cased, so no captured group can equal it.               *)
(***************************************************************************)
None == "None"

Ch(s, i) == SubSeq(s, i, i)

UpperChars == "ABCDEFGHIJKLMNOPQRSTUVWXYZ"
LowerChars == "abcdefghijklmnopqrstuvwxyz"
DigitChars == "0123456789"

SetOfChars(s) == {Ch(s, k) : k \in 1..Len(s)}

UpperSet == SetOfChars(UpperChars)
DigitSet == SetOfChars(DigitChars)
SpaceSet == {" ", "\t", "\n", "\r"}
WordSet == SetOfChars(UpperChars) \cup SetOfChars(LowerChars) \cup DigitSet \cup {"_"}

LowerMap == [c \in UpperSet |-> Ch(LowerChars, CHOOSE k \in 1..26 : Ch(UpperChars, k) = c)]

LowerChar(c) == IF c \in UpperSet THEN LowerMap[c] ELSE c

\* str.lower()
RECURSIVE lower(_)
lower(s) == IF s = "" THEN "" ELSE LowerChar(Head(s)) \o lower(Tail(s))

\* str.strip(): drop leading and trailing whitespace
RECURSIVE lstrip(_)
lstrip(s) == IF s # "" /\ Head(s) \in SpaceSet THEN lstrip(Tail(s)) ELSE s

RECURSIVE rstrip(_)
rstrip(s) == IF s # "" /\ Ch(s, Len(s)) \in SpaceSet THEN rstrip(SubSeq(s, 1, Len(s) - 1)) ELSE s

strip(s) == rstrip(lstrip(s))

\* Python's `needle in haystack` on strings
Contains(haystack, needle) ==
    \E i \in 1..(Len(haystack) - Len(needle) + 1) : SubSeq(haystack, i, i + Len(needle) - 1) = needle

(***************************************************************************)
(* Regular expressions (the subset of `re` syntax the command table uses). *)
(* A pattern is kept in the table as its source string; Compile gives its  *)
(* syntax tree.  Matching is backtracking with Python's priorities:        *)
(* alternatives left to right, quantifiers greedy.                         *)
(***************************************************************************)
S(s) == [t |-> "str", s |-> s]                   \* literal text
SPACE == [t |-> "cls", k |-> "s"]                \* \s
WORD == [t |-> "cls", k |-> "w"]                 \* \w
DIGIT == [t |-> "cls", k |-> "d"]                \* \d
ANY == [t |-> "cls", k |-> "any"]                \* .
NOTQUOTE == [t |-> "cls", k |-> "nq"]            \* [^"']
QUOTE == [t |-> "cls", k |-> "q"]                \* ["']
Seq_(xs) == [t |-> "seq", xs |-> xs]             \* concatenation
Alt(xs) == [t |-> "alt", xs |-> xs]              \* a|b|c
Opt(x) == [t |-> "opt", x |-> x]                 \* x?
\* x* and x+; a repeated character class is one "run" node
Star(x) == IF x.t = "cls" THEN [t |-> "run", k |-> x.k, min |-> 0] ELSE [t |-> "star", x |-> x]
Plus(x) == IF x.t = "cls" THEN [t |-> "run", k |-> x.k, min |-> 1]
           ELSE [t |-> "seq", xs |-> <<x, [t |-> "star", x |-> x]>>]
G(n, x) == [t |-> "grp", n |-> n, x |-> x]       \* capturing group n
NC(x) == x                                       \* (?:x)

InClass(k, c) ==
    CASE k = "s" -> c \in SpaceSet
      [] k = "w" -> c \in WordSet
      [] k = "d" -> c \in DigitSet
      [] k = "any" -> c # "\n"
      [] k = "nq" -> c \notin {"\"", "'"}
      [] k = "q" -> c \in {"\"", "'"}

\* literal comparison under re.IGNORECASE
RECURSIVE EqIgnoreCase(_, _, _, _)
EqIgnoreCase(lit, k, s, i) ==
    \/ k > Len(lit)
    \/ /\ i <= Len(s)
       /\ LowerChar(Ch(lit, k)) = LowerChar(Ch(s, i))
       /\ EqIgnoreCase(lit, k + 1, s, i + 1)

FAIL == <<>>

Min(set) == CHOOSE a \in set : \A b \in set : a <= b
Max(set) == CHOOSE a \in set : \A b \in set : a >= b

\* the position after the longest run of characters of class k from i
RunEnd(k, s, i) ==
    LET stops == {j \in i..Len(s) : ~InClass(k, Ch(s, j))}
    IN IF stops = {} THEN Len(s) + 1 ELSE Min(stops)

\* Run(stack, s, i, g): match the nodes on the stack, in order, against s
\* from position i, with groups g captured so far; the first success in
\* backtracking order as <<end, groups>>, or FAIL.
RECURSIVE Run(_, _, _, _)
RECURSIVE Backtrack(_, _, _, _, _)
Run(stack, s, i, g) ==
    IF stack = <<>> THEN <<i, g>>
    ELSE LET x == Head(stack)
             rest == Tail(stack)
         IN CASE x.t = "str" ->
                   IF EqIgnoreCase(x.s, 1, s, i) THEN Run(rest, s, i + Len(x.s), g) ELSE FAIL
              [] x.t = "cls" ->
                   IF i <= Len(s) /\ InClass(x.k, Ch(s, i)) THEN Run(rest, s, i + 1, g) ELSE FAIL
              [] x.t = "run" ->       \* greedy: the longest run first
                   IF RunEnd(x.k, s, i) < i + x.min THEN FAIL
                   ELSE Backtrack(rest, s, RunEnd(x.k, s, i), i + x.min, g)
              [] x.t = "seq" -> Run(x.xs \o rest, s, i, g)
              [] x.t = "alt" ->
                   IF x.xs = <<>> THEN FAIL
                   ELSE LET r == Run(<<Head(x.xs)>> \o rest, s, i, g)
                        IN IF r # FAIL THEN r ELSE Run(<<Alt(Tail(x.xs))>> \o rest, s, i, g)
              [] x.t = "opt" ->
                   LET r == Run(<<x.x>> \o rest, s, i, g)
                   IN IF r # FAIL THEN r ELSE Run(rest, s, i, g)
              [] x.t = "star" ->
                   LET r == Run(<<x.x, [t |-> "from", i |-> i], x>> \o rest, s, i, g)
                   IN IF r # FAIL THEN r ELSE Run(rest, s, i, g)
              [] x.t = "from" ->      \* an iteration of x* must consume text
                   IF i > x.i THEN Run(rest, s, i, g) ELSE FAIL
              [] x.t = "grp" -> Run(<<x.x, [t |-> "end", n |-> x.n, i |-> i]>> \o rest, s, i, g)
              [] x.t = "end" -> Run(rest, s, i, [g EXCEPT ![x.n] = SubSeq(s, x.i, i - 1)])

\* the rest of the pattern after a run that ends at j, giving characters back
\* down to position lo until the rest matches
Backtrack(rest, s, j, lo, g) ==
    LET r == Run(rest, s, j, g)
    IN IF r # FAIL THEN r
       ELSE IF j > lo THEN Backtrack(rest, s, j - 1, lo, g)
       ELSE FAIL

\* number of capturing groups of a syntax tree
RECURSIVE CountGroups(_)
RECURSIVE CountGroupsSeq(_)
CountGroups(x) ==
    CASE x.t \in {"str", "cls", "run"} -> 0
      [] x.t \in {"seq", "alt"} -> CountGroupsSeq(x.xs)
      [] x.t \in {"opt", "star"} -> CountGroups(x.x)
      [] x.t = "grp" -> 1 + CountGroups(x.x)

CountGroupsSeq(xs) == IF xs = <<>> THEN 0 ELSE CountGroups(Head(xs)) + CountGroupsSeq(Tail(xs))

\* re.search from start position i on: leftmost start, then backtracking
\* order.  The match object is [ok |-> TRUE, groups |-> match.groups()]; no
\* match has ok FALSE.
RECURSIVE SearchFrom(_, _, _, _)
SearchFrom(re, n, s, i) ==
    IF i > Len(s) + 1 THEN [ok |-> FALSE, groups |-> <<>>]
    ELSE LET r == Run(<<re>>, s, i, [k \in 1..n |-> None])
         IN IF r # FAIL THEN [ok |-> TRUE, groups |-> r[2]] ELSE SearchFrom(re, n, s, i + 1)

(***************************************************************************)
(* The patterns of the command tables, and of the add_command calls the    *)
(* model makes, with their syntax trees.                                   *)
(***************************************************************************)
SP == Plus(SPACE)                                                  \* \s+
WORDS == Seq_(<<Plus(WORD), Star(NC(Seq_(<<SP, Plus(WORD)>>)))>>)  \* \w+(?:\s+\w+)*
THE == Opt(NC(Seq_(<<S("the"), SP>>)))                             \* (?:the\s+)?
FILES == Opt(NC(Alt(<<S("file"), S("files")>>)))                   \* (?:file|files)?
NAMED == Opt(NC(Alt(<<S("named"), S("called")>>)))                 \* (?:named|called)?
IN_(n) == Opt(NC(Seq_(<<SP, S("in"), SP, G(n, Plus(ANY))>>)))      \* (?:\s+in\s+(.+))?
QUOTED(n) == Seq_(<<Opt(QUOTE), G(n, Plus(NOTQUOTE)), Opt(QUOTE)>>) \* ["']?([^"']+)["']?
SYSTEM == Opt(NC(Seq_(<<SP, THE, S("system")>>)))                  \* (?:\s+(?:the\s+)?system)?
WIFI == Seq_(<<THE, S("wi"), Opt(S("-")), S("fi")>>)               \* (?:the\s+)?wi-?fi
UNIT(n) == Seq_(<<G(n, Alt(<<S("second"), S("minute"), S("hour")>>)), Opt(S("s"))>>)

P_open_1 == "open\\s+(\\w+(?:\\s+\\w+)*)"
P_open_2 == "launch\\s+(\\w+(?:\\s+\\w+)*)"
P_open_3 == "start\\s+(\\w+(?:\\s+\\w+)*)"
P_find_1 == "find\\s+(?:the\\s+)?(?:file|files)?\\s+(?:named|called)?\\s+[\\\"']?([^\\\"']+)[\\\"']?(?:\\s+in\\s+(.+))?"
P_find_2 == "locate\\s+(?:the\\s+)?(?:file|files)?\\s+(?:named|called)?\\s+[\\\"']?([^\\\"']+)[\\\"']?(?:\\s+in\\s+(.+))?"
P_find_3 == "find\\s+[\\\"']?([^\\\"']+)[\\\"']?(?:\\s+in\\s+(.+))?"
P_find_4 == "where\\s+(?:is|are)\\s+(?:the\\s+)?(?:file|files)?\\s+[\\\"']?([^\\\"']+)[\\\"']?(?:\\s+in\\s+(.+))?"
P_web_1 == "search\\s+(?:the\\s+)?(?:web|internet|online)\\s+for\\s+(.+)"
P_web_2 == "look\\s+up\\s+online\\s+(.+)"
P_web_3 == "google\\s+(.+)"
P_system_1 == "shut\\s*down(?:\\s+(?:the\\s+)?system)?"
P_system_2 == "reboot(?:\\s+(?:the\\s+)?system)?"
P_system_3 == "restart(?:\\s+(?:the\\s+)?system)?"
P_create_1 == "create\\s+(?:a\\s+)?(?:new\\s+)?(\\w+(?:\\s+\\w+)*)\\s+(?:named|called)?\\s+[\\\"']?([^\\\"']+)[\\\"']?(?:\\s+in\\s+(.+))?"
P_create_2 == "make\\s+(?:a\\s+)?(?:new\\s+)?(\\w+(?:\\s+\\w+)*)\\s+(?:named|called)?\\s+[\\\"']?([^\\\"']+)[\\\"']?(?:\\s+in\\s+(.+))?"
P_create_3 == "new\\s+(\\w+(?:\\s+\\w+)*)\\s+(?:named|called)?\\s+[\\\"']?([^\\\"']+)[\\\"']?(?:\\s+in\\s+(.+))?"
P_wifi_1 == "(connect|disconnect)(?:\\s+(?:from|to))?\\s+(?:the\\s+)?wi-?fi"
P_wifi_2 == "turn\\s+(on|off)\\s+(?:the\\s+)?wi-?fi"
P_timer_1 == "set\\s+(?:a\\s+)?timer\\s+for\\s+(\\d+)\\s+(second|minute|hour)s?"
P_timer_2 == "remind\\s+me\\s+in\\s+(\\d+)\\s+(second|minute|hour)s?"

\* patterns of the table written by the older parser (tests/test2.py)
P_old_web_1 == "search\\s+(?:for\\s+)?(.+)"
P_old_web_2 == "look\\s+up\\s+(.+)"
P_old_web_3 == "find\\s+(.+)"
P_old_create_1 == "create\\s+(?:a\\s+)?(?:new\\s+)?(\\w+(?:\\s+\\w+)*)\\s+(?:project|file|folder)\\s+(?:named|called)?\\s+[\\\"']?([^\\\"']+)[\\\"']?"
P_old_create_2 == "make\\s+(?:a\\s+)?(?:new\\s+)?(\\w+(?:\\s+\\w+)*)\\s+(?:project|file|folder)(?:\\s+named|\\s+called)?\\s+[\\\"']?([^\\\"']+)[\\\"']?"

\* patterns given to add_command
P_add_create == "create\\s+(\\w+)"
P_add_sesame == "open\\s+sesame"
P_add_hello == "Hello"
P_add_lookup == "hello\\s+(\\w+)"
P_add_visit == "visit\\s+(\\w+)"
P_add_remind == "remind\\s+(\\w+)"

OpenRe(verb) == Seq_(<<S(verb), SP, G(1, WORDS)>>)
FindRe(verb) == Seq_(<<S(verb), SP, THE, FILES, SP, NAMED, SP, QUOTED(1), IN_(2)>>)
CreateRe(head) == Seq_(head \o <<G(1, WORDS), SP, NAMED, SP, QUOTED(2), IN_(3)>>)
A_NEW == <<Opt(NC(Seq_(<<S("a"), SP>>))), Opt(NC(Seq_(<<S("new"), SP>>)))>>   \* (?:a\s+)?(?:new\s+)?
KIND == NC(Alt(<<S("project"), S("file"), S("folder")>>))

\* re.compile: the syntax tree of each pattern
Compile(p) ==
    CASE p = P_open_1 -> OpenRe("open")
      [] p = P_open_2 -> OpenRe("launch")
      [] p = P_open_3 -> OpenRe("start")
      [] p = P_find_1 -> FindRe("find")
      [] p = P_find_2 -> FindRe("locate")
      [] p = P_find_3 -> Seq_(<<S("find"), SP, QUOTED(1), IN_(2)>>)
      [] p = P_find_4 -> Seq_(<<S("where"), SP, NC(Alt(<<S("is"), S("are")>>)), SP, THE, FILES, SP,
                                QUOTED(1), IN_(2)>>)
      [] p = P_web_1 -> Seq_(<<S("search"), SP, THE, NC(Alt(<<S("web"), S("internet"), S("online")>>)),
                               SP, S("for"), SP, G(1, Plus(ANY))>>)
      [] p = P_web_2 -> Seq_(<<S("look"), SP, S("up"), SP, S("online"), SP, G(1, Plus(ANY))>>)
      [] p = P_web_3 -> Seq_(<<S("google"), SP, G(1, Plus(ANY))>>)
      [] p = P_system_1 -> Seq_(<<S("shut"), Star(SPACE), S("down"), SYSTEM>>)
      [] p = P_system_2 -> Seq_(<<S("reboot"), SYSTEM>>)
      [] p = P_system_3 -> Seq_(<<S("restart"), SYSTEM>>)
      [] p = P_create_1 -> CreateRe(<<S("create"), SP>> \o A_NEW)
      [] p = P_create_2 -> CreateRe(<<S("make"), SP>> \o A_NEW)
      [] p = P_create_3 -> CreateRe(<<S("new"), SP>>)
      [] p = P_wifi_1 -> Seq_(<<G(1, Alt(<<S("connect"), S("disconnect")>>)),
                                Opt(NC(Seq_(<<SP, NC(Alt(<<S("from"), S("to")>>))>>))), SP, WIFI>>)
      [] p = P_wifi_2 -> Seq_(<<S("turn"), SP, G(1, Alt(<<S("on"), S("off")>>)), SP, WIFI>>)
      [] p = P_timer_1 -> Seq_(<<S("set"), SP, Opt(NC(Seq_(<<S("a"), SP>>))), S("timer"), SP, S("for"), SP,
                                 G(1, Plus(DIGIT)), SP, UNIT(2)>>)
      [] p = P_timer_2 -> Seq_(<<S("remind"), SP, S("me"), SP, S("in"), SP, G(1, Plus(DIGIT)), SP, UNIT(2)>>)
      [] p = P_old_web_1 -> Seq_(<<S("search"), SP, Opt(NC(Seq_(<<S("for"), SP>>))), G(1, Plus(ANY))>>)
      [] p = P_old_web_2 -> Seq_(<<S("look"), SP, S("up"), SP, G(1, Plus(ANY))>>)
      [] p = P_old_web_3 -> Seq_(<<S("find"), SP, G(1, Plus(ANY))>>)
      [] p = P_old_create_1 -> Seq_(<<S("create"), SP>> \o A_NEW \o
                                    <<G(1, WORDS), SP, KIND, SP, NAMED, SP, QUOTED(2)>>)
      [] p = P_old_create_2 -> Seq_(<<S("make"), SP>> \o A_NEW \o
                                    <<G(1, WORDS), SP, KIND,
                                      Opt(NC(Alt(<<Seq_(<<SP, S("named")>>), Seq_(<<SP, S("called")>>)>>))),
                                      SP, QUOTED(2)>>)
      [] p = P_add_create -> Seq_(<<S("create"), SP, G(1, Plus(WORD))>>)
      [] p = P_add_sesame -> Seq_(<<S("open"), SP, S("sesame")>>)
      [] p = P_add_hello -> S("Hello")
      [] p = P_add_lookup -> Seq_(<<S("hello"), SP, G(1, Plus(WORD))>>)
      [] p = P_add_visit -> Seq_(<<S("visit"), SP, G(1, Plus(WORD))>>)
      [] p = P_add_remind -> Seq_(<<S("remind"), SP, G(1, Plus(WORD))>>)

AllPatterns ==
    {P_open_1, P_open_2, P_open_3, P_find_1, P_find_2, P_find_3, P_find_4, P_web_1, P_web_2, P_web_3,
     P_system_1, P_system_2, P_system_3, P_create_1, P_create_2, P_create_3, P_wifi_1, P_wifi_2,
     P_timer_1, P_timer_2, P_old_web_1, P_old_web_2, P_old_web_3, P_old_create_1, P_old_create_2,
     P_add_create, P_add_sesame, P_add_hello, P_add_lookup, P_add_visit, P_add_remind}

\* the compiled-pattern cache of the re module
Compiled == [p \in AllPatterns |-> [re |-> Compile(p), groups |-> CountGroups(Compile(p))]]

\* the transcriptions the model feeds to parse and execute
Transcriptions ==
    {"open github", "  Turn OFF WiFi ", "Hello Friday ", "set a timer for 30 minutes", "create widget",
     "open sesame", "find my keys", "locate keys", "remind me later", "shut down", "google open github",
     "new alarm", "an alarm or reminder", "disconnect from wifi", "remind me in 5 hours"}

\* the texts that reach the regex engine: text = transcription.lower().strip()
Texts == {strip(lower(t)) : t \in Transcriptions}

\* re.search on every text and pattern of the model, computed once
SearchTable ==
    [text \in Texts |->
        [pattern \in AllPatterns |->
            SearchFrom(Compiled[pattern].re, Compiled[pattern].groups, text, 1)]]

\* re.search(pattern, text, re.IGNORECASE)
re_search(pattern, text) ==
    IF text \in Texts THEN SearchTable[text][pattern]
    ELSE SearchFrom(Compiled[pattern].re, Compiled[pattern].groups, text, 1)

(***************************************************************************)
(* difflib.get_close_matches(word, possibilities, n=1, cutoff=0.7).        *)
(* Offsets are 0-based and half-open, as in difflib.                       *)
(***************************************************************************)
Slice(s, lo, hi) == SubSeq(s, lo + 1, hi)        \* s[lo:hi]

\* code-point order of the characters alias keys and app names are made of
AsciiOrder == " -.0123456789ABCDEFGHIJKLMNOPQRSTUVWXYZ_abcdefghijklmnopqrstuvwxyz"
Code == [c \in SetOfChars(AsciiOrder) |-> CHOOSE k \in 1..Len(AsciiOrder) : Ch(AsciiOrder, k) = c]

\* a < b on Python strings
StrLess(a, b) ==
    \E k \in 1..(Len(a) + 1) :
        /\ k <= Len(b)
        /\ SubSeq(a, 1, k - 1) = SubSeq(b, 1, k - 1)
        /\ (k = Len(a) + 1 \/ Code[Ch(a, k)] < Code[Ch(b, k)])

\* SequenceMatcher.find_longest_match: the longest block a[i:i+k] = b[j:j+k]
\* inside a[alo:ahi], b[blo:bhi]; the earliest in a, then the earliest in b
find_longest_match(a, alo, ahi, b, blo, bhi) ==
    LET Block(i, j, k) == i + k <= ahi /\ j + k <= bhi /\ Slice(a, i, i + k) = Slice(b, j, j + k)
        sizes == {k \in 1..(ahi - alo) : \E i \in alo..(ahi - 1), j \in blo..(bhi - 1) : Block(i, j, k)}
        k == IF sizes = {} THEN 0 ELSE Max(sizes)
        i == Min({ii \in alo..(ahi - 1) : \E jj \in blo..(bhi - 1) : Block(ii, jj, k)})
        j == Min({jj \in blo..(bhi - 1) : Block(i, jj, k)})
    IN IF k = 0 THEN <<alo, blo, 0>> ELSE <<i, j, k>>

\* SequenceMatcher.get_matching_blocks, summed: the number of matched characters
RECURSIVE matches(_, _, _, _, _, _)
matches(a, alo, ahi, b, blo, bhi) ==
    LET m == find_longest_match(a, alo, ahi, b, blo, bhi)
        i == m[1]
        j == m[2]
        k == m[3]
    IN IF k = 0 THEN 0
       ELSE k + (IF alo < i /\ blo < j THEN matches(a, alo, i, b, blo, j) ELSE 0)
              + (IF i + k < ahi /\ j + k < bhi THEN matches(a, i + k, ahi, b, j + k, bhi) ELSE 0)

\* A ratio 2.0*matches/length is kept as the fraction <<2*matches, length>>
\* (1.0 when length is 0).
_calculate_ratio(m, length) == IF length = 0 THEN <<1, 1>> ELSE <<2 * m, length>>

ratio(a, b) == _calculate_ratio(matches(a, 0, Len(a), b, 0, Len(b)), Len(a) + Len(b))

real_quick_ratio(a, b) ==
    _calculate_ratio(IF Len(a) < Len(b) THEN Len(a) ELSE Len(b), Len(a) + Len(b))

Count(s, c) == Cardinality({k \in 1..Len(s) : Ch(s, k) = c})

\* the size of the multiset intersection of the characters of a and b
quick_ratio(a, b) ==
    LET chars == SetOfChars(a)
        common[cs \in SUBSET chars] ==
            IF cs = {} THEN 0
            ELSE LET c == CHOOSE d \in cs : TRUE
                     na == Count(a, c)
                     nb == Count(b, c)
                 IN (IF na < nb THEN na ELSE nb) + common[cs \ {c}]
    IN _calculate_ratio(common[chars], Len(a) + Len(b))

CutoffNum == 7      \* cutoff = 0.7 = CutoffNum / CutoffDen
CutoffDen == 10

AtLeastCutoff(r) == r[1] * CutoffDen >= CutoffNum * r[2]

\* (r1, x1) < (r2, x2) on (ratio, string) tuples
ScoredLess(r1, x1, r2, x2) ==
    \/ r1[1] * r2[2] < r2[1] * r1[2]
    \/ r1[1] * r2[2] = r2[1] * r1[2] /\ StrLess(x1, x2)

\* the list get_close_matches returns for n = 1: the best candidate that
\* passes the three cutoff tests, or nothing
get_close_matches(word, possibilities) ==
    LET passing == {x \in possibilities :
                        /\ AtLeastCutoff(real_quick_ratio(x, word))
                        /\ AtLeastCutoff(quick_ratio(x, word))
                        /\ AtLeastCutoff(ratio(x, word))}
    IN IF passing = {} THEN <<>>
       ELSE <<CHOOSE x \in passing :
                \A y \in passing \ {x} : ScoredLess(ratio(y, word), y, ratio(x, word), x)>>

(***************************************************************************)
(* Command tables.  A table is a Python dict in insertion order: a         *)
(* sequence of entries [cmd_type, patterns, function, extra], where extra  *)
(* maps each further field name to a tagged value (a dict or a list).      *)
(***************************************************************************)
Dict(f) == [kind |-> "dict", val |-> f]
List(xs) == [kind |-> "list", val |-> xs]
EmptyDict == <<>>

\* the dict {k1: v1, k2: v2, ...} of a sequence of <<key, value>> pairs
DictOf(pairs) ==
    [k \in {pairs[i][1] : i \in 1..Len(pairs)} |->
        pairs[CHOOSE i \in 1..Len(pairs) : pairs[i][1] = k /\ \A j \in (i + 1)..Len(pairs) : pairs[j][1] # k][2]]

\* d.update(e): the keys of e are added to d or overwritten
Update(d, e) == [k \in DOMAIN d \cup DOMAIN e |-> IF k \in DOMAIN e THEN e[k] ELSE d[k]]

Entry(t, ps, f, extra) == [cmd_type |-> t, patterns |-> ps, function |-> f, extra |-> extra]

default_apps ==
    DictOf(<<<<"github", "github.com">>, <<"browser", "web_browser">>, <<"terminal", "terminal">>,
             <<"vs code", "vscode">>, <<"cursor", "cursor_editor">>, <<"word", "ms_word">>,
             <<"instagram", "instagram.com">>>>)

default_types ==
    <<"project", "file", "folder", "directory", "document", "spreadsheet", "presentation", "text file",
      "python file", "javascript file", "html file", "css file", "markdown file", "json file", "yaml file",
      "xml file", "database", "script", "note", "todo list", "reminder">>

default_commands ==
    <<Entry("open", <<P_open_1, P_open_2, P_open_3>>, "open_application", [apps |-> Dict(default_apps)]),
      Entry("find_file", <<P_find_1, P_find_2, P_find_3, P_find_4>>, "find_files", EmptyDict),
      Entry("web_search", <<P_web_1, P_web_2, P_web_3>>, "web_search", EmptyDict),
      Entry("system", <<P_system_1, P_system_2, P_system_3>>, "system_control", EmptyDict),
      Entry("create", <<P_create_1, P_create_2, P_create_3>>, "create_item", [types |-> List(default_types)]),
      Entry("wifi", <<P_wifi_1, P_wifi_2>>, "control_wifi", EmptyDict),
      Entry("timer", <<P_timer_1, P_timer_2>>, "set_timer", EmptyDict)>>

\* the table the older parser writes to "commands.json" on its first run
old_default_commands ==
    <<Entry("open", <<P_open_1, P_open_2, P_open_3>>, "open_application", [apps |-> Dict(default_apps)]),
      Entry("web_search", <<P_old_web_1, P_old_web_2, P_old_web_3>>, "web_search", EmptyDict),
      Entry("system", <<P_system_1, P_system_2, P_system_3>>, "system_control", EmptyDict),
      Entry("create", <<P_old_create_1, P_old_create_2>>, "create_project", EmptyDict),
      Entry("wifi", <<P_wifi_1, P_wifi_2>>, "control_wifi", EmptyDict),
      Entry("timer", <<P_timer_1, P_timer_2>>, "set_timer", EmptyDict)>>

\* dict lookups on a table
HasType(cmds, t) == \E i \in 1..Len(cmds) : cmds[i].cmd_type = t
IndexOf(cmds, t) == CHOOSE i \in 1..Len(cmds) : cmds[i].cmd_type = t

(***************************************************************************)
(* CommandParser                                                           *)
(***************************************************************************)
\* An operation that may raise returns [exc, some, val]: exc is the exception
\* class or None; some says whether the returned Optional[Dict] is a dict.
Returned(rec) == [exc |-> None, some |-> TRUE, val |-> rec]
ReturnedNone == [exc |-> None, some |-> FALSE, val |-> EmptyDict]
Raised(e) == [exc |-> e, some |-> FALSE, val |-> EmptyDict]

\* truth value of a captured group: None and "" are false
Truthy(group) == group # None /\ group # ""

keywords ==
    <<<<"open", <<"open", "launch", "start", "run">>>>,
      <<"find_file", <<"find", "locate", "where is", "search for file">>>>,
      <<"web_search", <<"search web", "look up online", "google", "browser search">>>>,
      <<"system", <<"shutdown", "restart", "reboot", "turn off">>>>,
      <<"create", <<"create", "make", "new", "generate">>>>,
      <<"wifi", <<"wifi", "internet", "connect", "disconnect">>>>,
      <<"timer", <<"timer", "remind", "alarm">>>>>>

\* scores[cmd] for the k-th keyword list: how many of its keywords occur in text
CountKeywords(k, text) == Cardinality({w \in 1..Len(keywords[k][2]) : Contains(text, keywords[k][2][w])})

\* the scores of every text of the model, computed once
ScoreTable == [text \in Texts |-> [k \in 1..Len(keywords) |-> CountKeywords(k, text)]]

Score(k, text) == IF text \in Texts THEN ScoreTable[text][k] ELSE CountKeywords(k, text)

\* an inference that takes the last key with the highest score
_infer_intent_last(cmds, text) ==
    LET best_score == Max({Score(k, text) : k \in 1..Len(keywords)})
        best == Max({k \in 1..Len(keywords) : Score(k, text) = best_score})
        best_cmd == keywords[best][1]
    IN IF best_score > 0
       THEN Returned([command |-> best_cmd,
                      function |-> IF HasType(cmds, best_cmd) THEN cmds[IndexOf(cmds, best_cmd)].function
                                   ELSE None,
                      inferred |-> TRUE,
                      confidence |-> <<Score(best, text), Len(keywords[best][2])>>,
                      raw_text |-> text])
       ELSE ReturnedNone

_infer_intent(cmds, text) ==
    LET best_score == Max({Score(k, text) : k \in 1..Len(keywords)})
        \* max(scores, key=scores.get): the first key with the highest score
        best == Min({k \in 1..Len(keywords) : Score(k, text) = best_score})
        best_cmd == keywords[best][1]
    IN IF best_score > 0
       THEN Returned([command |-> best_cmd,
                      function |-> IF HasType(cmds, best_cmd) THEN cmds[IndexOf(cmds, best_cmd)].function
                                   ELSE None,
                      inferred |-> TRUE,
                      confidence |-> <<Score(best, text), Len(keywords[best][2])>>,
                      raw_text |-> text])
       ELSE ReturnedNone

\* a fuzzy matching that takes the matched key itself as the target
FuzzyTarget_key(apps, app_name, close_matches) ==
    IF close_matches # <<>>
    THEN [target |-> close_matches[1], matched_name |-> close_matches[1]]
    ELSE [target |-> app_name]

\* the fields the fuzzy matching of an app name sets
FuzzyTarget(apps, app_name, close_matches) ==
    IF close_matches # <<>>
    THEN [target |-> apps[close_matches[1]], matched_name |-> close_matches[1]]
    ELSE [target |-> app_name]      \* no match found, use the raw name

\* special handling for app opening
EnrichOpen(cmd_config, groups, result) ==
    IF groups[1] = None THEN Raised("AttributeError")       \* None.lower()
    ELSE LET app_name == lower(groups[1])
             apps_dict == IF "apps" \in DOMAIN cmd_config.extra THEN cmd_config.extra["apps"]
                          ELSE Dict(EmptyDict)
         IN IF apps_dict.kind # "dict"
            THEN \* a list: list[str] raises TypeError, list.keys() AttributeError
                 IF \E k \in 1..Len(apps_dict.val) : apps_dict.val[k] = app_name
                 THEN Raised("TypeError") ELSE Raised("AttributeError")
            ELSE IF app_name \in DOMAIN apps_dict.val
                 THEN Returned(Update(result, [target |-> apps_dict.val[app_name]]))
                 ELSE Returned(Update(result, FuzzyTarget(apps_dict.val, app_name,
                                                          get_close_matches(app_name, DOMAIN apps_dict.val))))

\* special handling for create command
EnrichCreate(groups, result) ==
    IF groups[1] = None THEN Raised("AttributeError")       \* None.lower()
    ELSE IF Len(groups) < 2 THEN Raised("IndexError")       \* match.group(2): no such group
    ELSE Returned(Update(result, [item_type |-> lower(groups[1]),
                                  item_name |-> groups[2],
                                  location |-> IF Len(groups) > 2 /\ Truthy(groups[3]) THEN groups[3]
                                               ELSE "current directory"]))

\* special handling for find_file command
EnrichFindFile(groups, result) ==
    Returned(Update(result, [file_pattern |-> groups[1],
                             location |-> IF Len(groups) > 1 /\ Truthy(groups[2]) THEN groups[2] ELSE "."]))

\* the body of the loop of _match_command_patterns once a pattern matched
Matched(cmd_config, groups, text) ==
    LET result == [command |-> cmd_config.cmd_type, function |-> cmd_config.function,
                   params |-> groups, raw_text |-> text]
    IN CASE cmd_config.cmd_type = "open" /\ groups # <<>> -> EnrichOpen(cmd_config, groups, result)
         [] cmd_config.cmd_type = "create" /\ groups # <<>> -> EnrichCreate(groups, result)
         [] cmd_config.cmd_type = "find_file" /\ groups # <<>> -> EnrichFindFile(groups, result)
         [] OTHER -> Returned(result)

\* MatchLoop visiting the command types in reverse insertion order
RECURSIVE MatchLoop_reversed(_, _, _, _)
MatchLoop_reversed(cmds, text, i, j) ==
    IF i > Len(cmds) THEN _infer_intent(cmds, text)
    ELSE LET r == Len(cmds) + 1 - i
         IN IF j > Len(cmds[r].patterns) THEN MatchLoop_reversed(cmds, text, i + 1, 1)
            ELSE LET match == re_search(cmds[r].patterns[j], text)
                 IN IF match.ok THEN Matched(cmds[r], match.groups, text)
                    ELSE MatchLoop_reversed(cmds, text, i, j + 1)

\* for cmd_type, cmd_config in self.commands.items(): for pattern in patterns:
\* the loop from type i, pattern j on; falls through to _infer_intent
RECURSIVE MatchLoop(_, _, _, _)
MatchLoop(cmds, text, i, j) ==
    IF i > Len(cmds) THEN _infer_intent(cmds, text)
    ELSE IF j > Len(cmds[i].patterns) THEN MatchLoop(cmds, text, i + 1, 1)
    ELSE LET match == re_search(cmds[i].patterns[j], text)
         IN IF match.ok THEN Matched(cmds[i], match.groups, text)
            ELSE MatchLoop(cmds, text, i, j + 1)

_match_command_patterns(cmds, text) == MatchLoop(cmds, text, 1, 1)

\* the sentinel built from the normalized text instead of the input
UnknownCommand_normalized(transcription) == [command |-> "unknown", transcription |-> strip(lower(transcription))]

UnknownCommand(transcription) == [command |-> "unknown", transcription |-> transcription]

\* what parse does with the result of _match_command_patterns
ParseResult(result, transcription) ==
    IF result.exc # None THEN [exc |-> result.exc, log |-> FALSE, ret |-> EmptyDict]
    ELSE [exc |-> None, log |-> result.some,
          ret |-> IF result.some THEN result.val ELSE UnknownCommand(transcription)]

\* parse: [exc, log, ret]; log says whether a history entry is appended
parse(cmds, transcription) ==
    ParseResult(_match_command_patterns(cmds, strip(lower(transcription))), transcription)

\* the loop over kwargs of add_command on an existing entry, from the i-th
\* keyword argument on: [exc, entry]
RECURSIVE UpdateFields(_, _, _)
UpdateFields(entry, kwargs, i) ==
    IF i > Len(kwargs) THEN [exc |-> None, entry |-> entry]
    ELSE LET k == kwargs[i][1]
             v == kwargs[i][2]
         IN IF k \in DOMAIN entry.extra /\ v.kind = "dict"
            THEN IF entry.extra[k].kind = "dict"
                 THEN UpdateFields([entry EXCEPT !.extra[k] = Dict(Update(@.val, v.val))], kwargs, i + 1)
                 ELSE [exc |-> "AttributeError", entry |-> entry]     \* list.update
            ELSE UpdateFields([entry EXCEPT !.extra = Update(@, DictOf(<<<<k, v>>>>))], kwargs, i + 1)

\* add_command putting a new type in front of the table
add_command_in_front(cmds, cmd_type, patterns, function, kwargs) ==
    IF ~HasType(cmds, cmd_type)
    THEN [exc |-> None,
          commands |-> <<Entry(cmd_type, patterns, function, DictOf(kwargs))>> \o cmds]
    ELSE LET n == IndexOf(cmds, cmd_type)
             updated == UpdateFields([cmds[n] EXCEPT !.patterns = @ \o patterns, !.function = function],
                                     kwargs, 1)
         IN [exc |-> updated.exc, commands |-> [cmds EXCEPT ![n] = updated.entry]]

\* add_command storing a new type without its patterns
add_command_no_patterns(cmds, cmd_type, patterns, function, kwargs) ==
    IF ~HasType(cmds, cmd_type)
    THEN [exc |-> None,
          commands |-> Append(cmds, Entry(cmd_type, <<>>, function, DictOf(kwargs)))]
    ELSE LET n == IndexOf(cmds, cmd_type)
             updated == UpdateFields([cmds[n] EXCEPT !.patterns = @ \o patterns, !.function = function],
                                     kwargs, 1)
         IN [exc |-> updated.exc, commands |-> [cmds EXCEPT ![n] = updated.entry]]

\* the table add_command leaves in memory, and the exception it raises if any
add_command(cmds, cmd_type, patterns, function, kwargs) ==
    IF ~HasType(cmds, cmd_type)
    THEN [exc |-> None,
          commands |-> Append(cmds, Entry(cmd_type, patterns, function, DictOf(kwargs)))]
    ELSE LET n == IndexOf(cmds, cmd_type)
             updated == UpdateFields([cmds[n] EXCEPT !.patterns = @ \o patterns, !.function = function],
                                     kwargs, 1)
         IN [exc |-> updated.exc, commands |-> [cmds EXCEPT ![n] = updated.entry]]

(***************************************************************************)
(* CommandExecutor                                                         *)
(***************************************************************************)
function_map ==
    {"open_application", "web_search", "system_control", "create_item", "control_wifi", "set_timer",
     "find_files"}

\* dict.get(key, default)
Get(d, key, default) == IF key \in DOMAIN d THEN d[key] ELSE default

\* A handler call returns [exc, error, ret]: the exception class or None,
\* str(e), and the returned record.
HandlerReturned(rec) == [exc |-> None, error |-> "", ret |-> rec]
HandlerRaised(e, msg) == [exc |-> e, error |-> msg, ret |-> EmptyDict]

\* int(s) for a str: [ok, val]
IsIntLiteral(s) ==
    /\ s # ""
    /\ \A k \in 1..Len(s) : Ch(s, k) \in DigitSet \cup {"_"}
    /\ Head(s) # "_" /\ Ch(s, Len(s)) # "_"
    /\ \A k \in 1..(Len(s) - 1) : ~(Ch(s, k) = "_" /\ Ch(s, k + 1) = "_")

DigitVal == [c \in DigitSet |-> (CHOOSE k \in 1..10 : Ch(DigitChars, k) = c) - 1]

RECURSIVE DigitsValue(_, _)
DigitsValue(s, acc) ==
    IF s = "" THEN acc
    ELSE IF Head(s) = "_" THEN DigitsValue(Tail(s), acc)
    ELSE DigitsValue(Tail(s), 10 * acc + DigitVal[Head(s)])

int(s) ==
    LET body == strip(s)
        signed == body # "" /\ Head(body) \in {"+", "-"}
        digits == IF signed THEN Tail(body) ELSE body
    IN IF IsIntLiteral(digits)
       THEN [ok |-> TRUE, val |-> IF signed /\ Head(body) = "-" THEN 0 - DigitsValue(digits, 0)
                                  ELSE DigitsValue(digits, 0)]
       ELSE [ok |-> FALSE, val |-> 0]

\* webbrowser.open returns opened, TRUE or FALSE
open_application(cmd_data, opened) ==
    LET target == Get(cmd_data, "target", "")
    IN IF Contains(target, "github")
       THEN HandlerReturned([target |-> target, status |-> opened])
       ELSE HandlerRaised("UnboundLocalError",
                          "cannot access local variable 'status' where it is not associated with a value")

web_search(cmd_data) ==
    LET params == Get(cmd_data, "params", <<"">>)
    IN IF params = <<>> THEN HandlerRaised("IndexError", "tuple index out of range")
       ELSE HandlerReturned([query |-> params[1], status |-> "searched"])

system_control(cmd_data) ==
    HandlerReturned([action |-> IF Contains(Get(cmd_data, "raw_text", ""), "shut") THEN "shutdown"
                                ELSE "restart",
                     status |-> "initiated"])

\* def create_item(self) -> None, called with one argument too many
create_item(cmd_data) ==
    HandlerRaised("TypeError", "CommandExecutor.create_item() takes 1 positional argument but 2 were given")

find_files(cmd_data) ==
    HandlerRaised("TypeError", "CommandExecutor.find_files() takes 1 positional argument but 2 were given")

control_wifi(cmd_data) ==
    HandlerReturned([action |-> IF \E w \in {"connect", "on"} : Contains(Get(cmd_data, "raw_text", ""), w)
                                THEN "connect" ELSE "disconnect",
                     status |-> "completed"])

\* a set_timer that takes a non-numeric duration as 0
set_timer_lenient(cmd_data) ==
    LET params == Get(cmd_data, "params", <<"0", "minute">>)
    IN IF params = <<>> THEN HandlerRaised("IndexError", "tuple index out of range")
       ELSE IF Len(params) < 2 THEN HandlerReturned([duration |-> 0, unit |-> "minute", status |-> "set"])
       ELSE HandlerReturned([duration |-> IF params[1] # None /\ int(params[1]).ok THEN int(params[1]).val ELSE 0,
                             unit |-> params[2], status |-> "set"])

set_timer(cmd_data) ==
    LET params == Get(cmd_data, "params", <<"0", "minute">>)
    IN IF params = <<>> THEN HandlerRaised("IndexError", "tuple index out of range")
       ELSE IF params[1] = None
       THEN HandlerRaised("TypeError", "int() argument must be a string, a bytes-like object or a real number, not 'NoneType'")
       ELSE IF ~int(params[1]).ok
       THEN HandlerRaised("ValueError", "invalid literal for int() with base 10: '" \o params[1] \o "'")
       ELSE IF Len(params) < 2 THEN HandlerRaised("IndexError", "tuple index out of range")
       ELSE HandlerReturned([duration |-> int(params[1]).val, unit |-> params[2], status |-> "set"])

\* self.function_map[func_name](cmd_data)
Call(func_name, cmd_data, opened) ==
    CASE func_name = "open_application" -> open_application(cmd_data, opened)
      [] func_name = "web_search" -> web_search(cmd_data)
      [] func_name = "system_control" -> system_control(cmd_data)
      [] func_name = "create_item" -> create_item(cmd_data)
      [] func_name = "control_wifi" -> control_wifi(cmd_data)
      [] func_name = "set_timer" -> set_timer(cmd_data)
      [] func_name = "find_files" -> find_files(cmd_data)

\* Dispatch without the test for the "unknown" sentinel
Dispatch_unknown(parsed, opened) ==
    LET cmd_data == parsed.ret
        result == [success |-> FALSE, command_data |-> cmd_data, message |-> "Command not recognized"]
        func_name == Get(cmd_data, "function", None)
        called == Call(func_name, cmd_data, opened)
    IN IF parsed.exc # None
       THEN [exc |-> parsed.exc, log |-> FALSE, ret |-> EmptyDict, invoked |-> <<>>]
       ELSE IF func_name \in function_map
       THEN [exc |-> None, log |-> parsed.log, invoked |-> <<func_name>>,
                  ret |-> IF called.exc = None
                          THEN Update(result, [success |-> TRUE, result |-> called.ret,
                                               message |-> "Executed " \o cmd_data.command \o " command"])
                          ELSE Update(result, [success |-> FALSE, error |-> called.error,
                                               message |-> "Error executing " \o cmd_data.command
                                                           \o " command"])]
       ELSE [exc |-> None, log |-> parsed.log, invoked |-> <<>>,
                  ret |-> Update(result, [message |-> "Function " \o func_name \o " not implemented"])]

\* Dispatch without the else branch that sets the "not implemented" message
Dispatch_no_else(parsed, opened) ==
    LET cmd_data == parsed.ret
        result == [success |-> FALSE, command_data |-> cmd_data, message |-> "Command not recognized"]
        func_name == Get(cmd_data, "function", None)
        called == Call(func_name, cmd_data, opened)
    IN IF parsed.exc # None
       THEN [exc |-> parsed.exc, log |-> FALSE, ret |-> EmptyDict, invoked |-> <<>>]
       ELSE IF cmd_data.command # "unknown"
       THEN IF func_name \in function_map
            THEN [exc |-> None, log |-> parsed.log, invoked |-> <<func_name>>,
                  ret |-> IF called.exc = None
                          THEN Update(result, [success |-> TRUE, result |-> called.ret,
                                               message |-> "Executed " \o cmd_data.command \o " command"])
                          ELSE Update(result, [success |-> FALSE, error |-> called.error,
                                               message |-> "Error executing " \o cmd_data.command
                                                           \o " command"])]
            ELSE [exc |-> None, log |-> parsed.log, invoked |-> <<>>, ret |-> result]
       ELSE [exc |-> None, log |-> parsed.log, ret |-> result, invoked |-> <<>>]

\* a dispatch that keeps an empty result when the handler raises
Dispatch_result_on_error(parsed, opened) ==
    LET cmd_data == parsed.ret
        result == [success |-> FALSE, command_data |-> cmd_data, message |-> "Command not recognized"]
        func_name == Get(cmd_data, "function", None)
        called == Call(func_name, cmd_data, opened)
    IN IF parsed.exc # None
       THEN [exc |-> parsed.exc, log |-> FALSE, ret |-> EmptyDict, invoked |-> <<>>]
       ELSE IF cmd_data.command # "unknown"
       THEN IF func_name \in function_map
            THEN [exc |-> None, log |-> parsed.log, invoked |-> <<func_name>>,
                  ret |-> IF called.exc = None
                          THEN Update(result, [success |-> TRUE, result |-> called.ret,
                                               message |-> "Executed " \o cmd_data.command \o " command"])
                          ELSE Update(result, [success |-> FALSE, result |-> EmptyDict,
                                               error |-> called.error,
                                               message |-> "Error executing " \o cmd_data.command
                                                           \o " command"])]
            ELSE [exc |-> None, log |-> parsed.log, invoked |-> <<>>,
                  ret |-> Update(result, [message |-> "Function " \o func_name \o " not implemented"])]
       ELSE [exc |-> None, log |-> parsed.log, ret |-> result, invoked |-> <<>>]

\* Dispatch without the try/except around the handler call
Dispatch_no_except(parsed, opened) ==
    LET cmd_data == parsed.ret
        result == [success |-> FALSE, command_data |-> cmd_data, message |-> "Command not recognized"]
        func_name == Get(cmd_data, "function", None)
        called == Call(func_name, cmd_data, opened)
    IN IF parsed.exc # None
       THEN [exc |-> parsed.exc, log |-> FALSE, ret |-> EmptyDict, invoked |-> <<>>]
       ELSE IF cmd_data.command # "unknown"
       THEN IF func_name \in function_map
            THEN IF called.exc = None
                 THEN [exc |-> None, log |-> parsed.log, invoked |-> <<func_name>>,
                       ret |-> Update(result, [success |-> TRUE, result |-> called.ret,
                                               message |-> "Executed " \o cmd_data.command \o " command"])]
                 ELSE [exc |-> called.exc, log |-> parsed.log, invoked |-> <<func_name>>, ret |-> result]
            ELSE [exc |-> None, log |-> parsed.log, invoked |-> <<>>,
                  ret |-> Update(result, [message |-> "Function " \o func_name \o " not implemented"])]
       ELSE [exc |-> None, log |-> parsed.log, ret |-> result, invoked |-> <<>>]

\* what execute does with the outcome of self.parser.parse: [exc, log, ret,
\* invoked]; exc is an exception that reaches the caller, invoked the
\* handlers that were called
Dispatch(parsed, opened) ==
    LET cmd_data == parsed.ret
        result == [success |-> FALSE, command_data |-> cmd_data, message |-> "Command not recognized"]
        func_name == Get(cmd_data, "function", None)
        called == Call(func_name, cmd_data, opened)
    IN IF parsed.exc # None
       THEN [exc |-> parsed.exc, log |-> FALSE, ret |-> EmptyDict, invoked |-> <<>>]
       ELSE IF cmd_data.command # "unknown"
       THEN IF func_name \in function_map
            THEN [exc |-> None, log |-> parsed.log, invoked |-> <<func_name>>,
                  ret |-> IF called.exc = None
                          THEN Update(result, [success |-> TRUE, result |-> called.ret,
                                               message |-> "Executed " \o cmd_data.command \o " command"])
                          ELSE Update(result, [success |-> FALSE, error |-> called.error,
                                               message |-> "Error executing " \o cmd_data.command
                                                           \o " command"])]
            ELSE [exc |-> None, log |-> parsed.log, invoked |-> <<>>,
                  ret |-> Update(result, [message |-> "Function " \o func_name \o " not implemented"])]
       ELSE [exc |-> None, log |-> parsed.log, ret |-> result, invoked |-> <<>>]

execute(cmds, transcription, opened) == Dispatch(parse(cmds, transcription), opened)

(***************************************************************************)
(* The state machine: one CommandParser with its CommandExecutor, the two  *)
(* files the parser reads and writes, and the calls made on them.          *)
(***************************************************************************)
MaxAdds == 1        \* add_command calls in a run
MaxCalls == 1       \* parse and execute calls in a run
MaxRepeat == 2      \* parse and execute calls in a session of repeated calls

\* CONFIGURATION.joinpath('commands.json'), the default commands_file
ConfigPath == "~/Library/Application Support/Friday/commands.json"
\* the path add_command writes to, relative to the working directory
RelativePath == "commands.json"
Paths == {ConfigPath, RelativePath}

NoFile == [exists |-> FALSE, doc |-> <<>>]
File(doc) == [exists |-> TRUE, doc |-> doc]

AddCalls ==
    {[cmd_type |-> "create", patterns |-> <<P_add_create>>, function |-> "new_item",
      kwargs |-> <<<<"types", List(<<"widget">>)>>>>],
     [cmd_type |-> "greet", patterns |-> <<P_add_sesame, P_add_hello>>, function |-> "say_hello",
      kwargs |-> <<>>],
     [cmd_type |-> "lookup", patterns |-> <<P_add_lookup>>, function |-> "web_search",
      kwargs |-> <<<<"sites", Dict(DictOf(<<<<"wiki", "wikipedia.org">>>>))>>>>],
     [cmd_type |-> "open", patterns |-> <<P_add_visit>>, function |-> "open_application",
      kwargs |-> <<<<"apps", Dict(DictOf(<<<<"github", "github.com/d33p0st">>, <<"Sesame", "sesame.app">>>>))>>>>],
     [cmd_type |-> "create", patterns |-> <<>>, function |-> "create_item",
      kwargs |-> <<<<"root", List(<<"home">>)>>, <<"types", Dict(DictOf(<<<<"widget", "w">>>>))>>>>],
     [cmd_type |-> "remind", patterns |-> <<P_add_remind>>, function |-> "set_timer", kwargs |-> <<>>]}

VARIABLES
    commands,           \* CommandParser.commands
    command_history,    \* CommandParser.command_history
    commands_file,      \* the commands_file argument of the constructor
    loaded,             \* the table _load_commands returned
    disk,               \* the document stored at each path
    adds,               \* add_command calls made
    calls,              \* parse and execute calls made; the clock of time.time()
    last,               \* the last call: its arguments and what it returned or raised
    recording           \* STTEngine._record: its position and its locals

vars == <<commands, command_history, commands_file, loaded, disk, adds, calls, last, recording>>

\* _load_commands: the table, and the disk after the call
_load_commands(path, d) ==
    IF d[path].exists THEN [commands |-> d[path].doc, disk |-> d]
    ELSE [commands |-> default_commands, disk |-> [d EXCEPT ![path] = File(default_commands)]]

\* CommandParser(commands_file) and CommandExecutor(parser), constructed
\* either with the default path on the first run, or with "commands.json"
\* where the older parser has left its table
Construct(path, d) ==
    /\ commands_file = path
    /\ commands = _load_commands(path, d).commands
    /\ loaded = commands
    /\ disk = _load_commands(path, d).disk
    /\ command_history = <<>>
    /\ adds = 0
    /\ calls = 0
    /\ last = [op |-> "__init__"]

\* _record has not been called
NotRecording == [pc |-> "idle", silent_chunks |-> 0, frames |-> 0, data |-> <<>>]

Init ==
    /\ \/ Construct(ConfigPath, [p \in Paths |-> NoFile])
       \/ Construct(RelativePath, [p \in Paths |-> IF p = RelativePath THEN File(old_default_commands) ELSE NoFile])
    /\ recording = NotRecording

Log_rewrite(history, time, transcription, command) ==
    <<[time |-> time, transcription |-> transcription, command |-> command]>>

\* self.command_history.append({"timestamp": time.time(), "transcription": transcription, "command": result})
Log(history, time, transcription, command) ==
    Append(history, [time |-> time, transcription |-> transcription, command |-> command])

\* a parse that answers a transcription already in the history with the sentinel
ParseCall_once(transcription) ==
    /\ calls' = calls + 1
    /\ \E out \in {IF \E i \in 1..Len(command_history) : command_history[i].transcription = transcription
                   THEN [exc |-> None, log |-> FALSE, ret |-> UnknownCommand(transcription)]
                   ELSE parse(commands, transcription)} :
          /\ command_history' =
                IF out.log THEN Log(command_history, calls', transcription, out.ret)
                ELSE command_history
          /\ last' = [op |-> "parse", transcription |-> transcription, exc |-> out.exc, ret |-> out.ret]
    /\ UNCHANGED <<commands, commands_file, loaded, disk, adds, recording>>

\* one call of parse(transcription)
ParseCall(transcription) ==
    /\ calls' = calls + 1
    /\ \E out \in {parse(commands, transcription)} :
          /\ command_history' =
                IF out.log THEN Log(command_history, calls', transcription, out.ret)
                ELSE command_history
          /\ last' = [op |-> "parse", transcription |-> transcription, exc |-> out.exc, ret |-> out.ret]
    /\ UNCHANGED <<commands, commands_file, loaded, disk, adds, recording>>

\* one call of execute(transcription); opened is what webbrowser.open returns
ExecuteCall(transcription, opened) ==
    /\ calls' = calls + 1
    /\ \E out \in {execute(commands, transcription, opened)} :
          /\ command_history' =
                IF out.log THEN Log(command_history, calls', transcription, out.ret.command_data)
                ELSE command_history
          /\ last' = [op |-> "execute", transcription |-> transcription, opened |-> opened,
                      exc |-> out.exc, ret |-> out.ret, invoked |-> out.invoked]
    /\ UNCHANGED <<commands, commands_file, loaded, disk, adds, recording>>

Parse(transcription) ==
    /\ calls < MaxCalls
    /\ ParseCall(transcription)

Execute(transcription, opened) ==
    /\ calls < MaxCalls
    /\ ExecuteCall(transcription, opened)

AddCommand(a) ==
    /\ adds < MaxAdds
    /\ adds' = adds + 1
    /\ \E out \in {add_command(commands, a.cmd_type, a.patterns, a.function, a.kwargs)} :
          /\ commands' = out.commands
          \* with open("commands.json", 'w') as f: json.dump(self.commands, f, indent=4)
          /\ disk' = IF out.exc = None THEN [disk EXCEPT ![RelativePath] = File(out.commands)] ELSE disk
          /\ last' = [op |-> "add_command", call |-> a, exc |-> out.exc, new |-> ~HasType(commands, a.cmd_type)]
    /\ UNCHANGED <<command_history, commands_file, loaded, calls, recording>>

Next ==
    \/ \E t \in Transcriptions : Parse(t)
    \/ \E t \in Transcriptions, opened \in BOOLEAN : Execute(t, opened)
    \/ \E a \in AddCalls : AddCommand(a)

Spec == Init /\ [][Next]_vars

\* Sessions of repeated calls: up to MaxRepeat parse and execute calls over
\* a few transcriptions, with add_command and get_suggestions calls between
\* them.
RepeatTranscriptions == {"open sesame", "open github", "Hello Friday ", "locate keys"}

RepeatAdds == {a \in AddCalls : a.cmd_type \in {"greet", "open"}}

\* get_suggestions(partial_command): loops over the table and returns []
get_suggestions(cmds, partial_command) == <<>>

GetSuggestions(partial_command) ==
    /\ last' = [op |-> "get_suggestions", transcription |-> partial_command,
                exc |-> None, ret |-> get_suggestions(commands, partial_command)]
    /\ UNCHANGED <<commands, command_history, commands_file, loaded, disk, adds, calls, recording>>

ParseRepeat(transcription) ==
    /\ calls < MaxRepeat
    /\ ParseCall(transcription)

ExecuteRepeat(transcription, opened) ==
    /\ calls < MaxRepeat
    /\ ExecuteCall(transcription, opened)

NextRepeat ==
    \/ \E t \in RepeatTranscriptions : ParseRepeat(t)
    \/ \E t \in RepeatTranscriptions, opened \in BOOLEAN : ExecuteRepeat(t, opened)
    \/ \E a \in RepeatAdds : AddCommand(a)
    \/ \E t \in RepeatTranscriptions : GetSuggestions(t)

SpecRepeat == Init /\ [][NextRepeat]_vars

(***************************************************************************)
(* STTEngine._record (backups/stt.py): record audio until silence          *)
(***************************************************************************)
RATE == 16000
CHUNK == 1024
SILENCE_THRESHOLD == 1000
SILENCE_DURATION == 3

MaxFrames == 60     \* len(frames) is counted up to MaxFrames; a longer list counts as MaxFrames

\* max_silent_chunks = int(SILENCE_DURATION * RATE / CHUNK)
max_silent_chunks == (SILENCE_DURATION * RATE) \div CHUNK

\* The chunks stream.read(CHUNK) delivers: a chunk is CHUNK int16 samples,
\* here all of one value.
Chunks == {0, 999, -1000, 32767, -32768}

\* numpy.max(numpy.abs(audio_data)) < threshold; numpy.abs of the int16
\* -32768 wraps to -32768
_is_silent(audio_data) ==
    (IF audio_data = -32768 THEN -32768 ELSE IF audio_data < 0 THEN -audio_data ELSE audio_data)
        < SILENCE_THRESHOLD

\* the call of _record on a constructed engine: frames = [], silent_chunks = 0
InitRecord ==
    /\ Construct(ConfigPath, [p \in Paths |-> NoFile])
    /\ recording = [pc |-> "wait", silent_chunks |-> 0, frames |-> 0, data |-> <<>>]

\* one round of the first loop: wait for speech
WaitForSpeech(chunk) ==
    /\ recording.pc = "wait"
    /\ recording' =
          IF ~_is_silent(chunk)
          THEN [pc |-> "record", silent_chunks |-> 0, frames |-> 1, data |-> <<chunk>>]
          ELSE [recording EXCEPT !.data = <<chunk>>]
    /\ UNCHANGED <<commands, command_history, commands_file, loaded, disk, adds, calls, last>>

\* one round of the second loop: record until silence; leaving the loop,
\* _record closes the stream, writes the frames and returns
RecordUntilSilence(chunk) ==
    /\ recording.pc = "record"
    /\ \E n \in {IF _is_silent(chunk) THEN recording.silent_chunks + 1 ELSE 0} :
          recording' = [pc |-> IF n >= max_silent_chunks THEN "done" ELSE "record",
                        silent_chunks |-> n,
                        frames |-> Min({recording.frames + 1, MaxFrames}),
                        data |-> <<chunk>>]
    /\ UNCHANGED <<commands, command_history, commands_file, loaded, disk, adds, calls, last>>

NextRecord ==
    \/ \E chunk \in Chunks : WaitForSpeech(chunk)
    \/ \E chunk \in Chunks : RecordUntilSilence(chunk)

\* stream.read blocks until the device delivers the next chunk, and the
\* device keeps delivering: the loop that is running takes its next round
SpecRecord == InitRecord /\ [][NextRecord]_vars /\ WF_vars(NextRecord)

(***************************************************************************)
(* Properties                                                              *)
(***************************************************************************)
\* the text parse matches against: transcription.lower().strip()
LastText == strip(lower(last.transcription))

\* the positions in the table of the command types with a pattern that matches text
TypesMatching(cmds, text) ==
    {i \in 1..Len(cmds) : \E j \in 1..Len(cmds[i].patterns) : re_search(cmds[i].patterns[j], text).ok}

\* the first pattern of the i-th type, in listed order, that matches text
FirstPattern(cmds, i, text) ==
    cmds[i].patterns[Min({j \in 1..Len(cmds[i].patterns) : re_search(cmds[i].patterns[j], text).ok})]

\* no keyword of any keyword list occurs in text
NoKeyword(text) ==
    \A k \in 1..Len(keywords) : \A w \in 1..Len(keywords[k][2]) : ~Contains(text, keywords[k][2][w])

\* C1: execute never propagates an exception to its caller; for every
\* transcription and every table reachable by add_command calls it returns
\* a record carrying success, command_data and message.
C1_ExecuteNeverRaises ==
    last.op = "execute" =>
        /\ last.exc = None
        /\ {"success", "command_data", "message"} \subseteq DOMAIN last.ret

\* C2: parse never fails with a hard error; for every transcription and
\* every table reachable by add_command calls it returns a record with a
\* command field.
C2_ParseNeverRaises ==
    last.op = "parse" =>
        /\ last.exc = None
        /\ "command" \in DOMAIN last.ret

\* C3: the command type parse returns is the first type, in table order,
\* with a pattern matching the normalized text, and params are the groups
\* of the first matching pattern of that type, wherever in the text the
\* patterns match.
C3_FirstMatchWins ==
    (last.op = "parse" /\ last.exc = None /\ TypesMatching(commands, LastText) # {}) =>
        LET i == Min(TypesMatching(commands, LastText))
        IN /\ last.ret.command = commands[i].cmd_type
           /\ last.ret.function = commands[i].function
           /\ last.ret.params = re_search(FirstPattern(commands, i, LastText), LastText).groups
           /\ last.ret.raw_text = LastText

\* a parse of a text that patterns of two types match, the later type
\* matching earlier in the text
C3_Witness ==
    /\ last.op = "parse"
    /\ last.exc = None
    /\ last.transcription = "google open github"
    /\ Cardinality(TypesMatching(commands, LastText)) >= 2
    /\ last.ret.command = "open"

C5_UnknownNotRecognized ==
    (/\ last.op = "execute"
     /\ LET parsed == parse(commands, last.transcription)
        IN parsed.exc = None /\ parsed.ret.command = "unknown") =>
        /\ last.exc = None
        /\ last.ret.success = FALSE
        /\ last.ret.message = "Command not recognized"
        /\ last.invoked = <<>>
        /\ "result" \notin DOMAIN last.ret
        /\ "error" \notin DOMAIN last.ret

\* an execute whose command_data is the sentinel
C5_Witness ==
    /\ last.op = "execute"
    /\ last.exc = None
    /\ last.ret.command_data = [command |-> "unknown", transcription |-> last.transcription]

\* C6: when the parsed record is not the sentinel and its function is not a
\* key of the dispatch table (None on an inferred record whose type is
\* absent from the table included), execute returns success = false with
\* message "Function <name> not implemented" and invokes no handler.
C6_NotImplemented ==
    last.op = "execute" =>
        LET parsed == parse(commands, last.transcription)
            func_name == Get(parsed.ret, "function", None)
        IN (parsed.exc = None /\ parsed.ret.command # "unknown" /\ func_name \notin function_map) =>
              /\ last.exc = None
              /\ last.ret.success = FALSE
              /\ last.ret.message = "Function " \o func_name \o " not implemented"
              /\ last.invoked = <<>>

\* an execute of an inferred command whose type is absent from the table
C6_Witness ==
    /\ last.op = "execute"
    /\ last.exc = None
    /\ last.ret.command_data.command # "unknown"
    /\ "inferred" \in DOMAIN last.ret.command_data
    /\ last.ret.command_data.function = None
    /\ last.ret.message = "Function None not implemented"

\* C7: an exception raised inside a dispatched handler is caught by execute
\* and converted into a result with success = false, error = the failure
\* description and message "Error executing <type> command"; no result
\* field is set and the exception does not reach the caller.
C7_HandlerFailureContained ==
    last.op = "execute" =>
        LET parsed == parse(commands, last.transcription)
            func_name == Get(parsed.ret, "function", None)
            called == Call(func_name, parsed.ret, last.opened)
        IN (/\ parsed.exc = None
            /\ parsed.ret.command # "unknown"
            /\ func_name \in function_map
            /\ called.exc # None) =>
              /\ last.exc = None
              /\ last.ret.success = FALSE
              /\ last.ret.error = called.error
              /\ last.ret.message = "Error executing " \o parsed.ret.command \o " command"
              /\ "result" \notin DOMAIN last.ret
              /\ last.invoked = <<func_name>>

\* an execute whose handler raised
C7_Witness ==
    /\ last.op = "execute"
    /\ last.exc = None
    /\ last.invoked # <<>>
    /\ "error" \in DOMAIN last.ret
    /\ last.ret.success = FALSE

\* an add_command call on a new type directly followed by a parse or an
\* execute of a transcription that one of the new patterns matches
NewTypeThenCall ==
    /\ last.op = "add_command"
    /\ last.new
    /\ last'.op \in {"parse", "execute"}
    /\ \E j \in 1..Len(last.call.patterns) :
          re_search(last.call.patterns[j], strip(lower(last'.transcription))).ok

\* no pattern of a type that precedes the type of the last add_command call
\* in the table matches the text of the next call
NoEarlierTypeMatches ==
    \A i \in TypesMatching(commands, strip(lower(last'.transcription))) :
        i >= IndexOf(commands, last.call.cmd_type)

C9_PersistedAtCommandsFile ==
    /\ disk[commands_file].exists
    /\ disk[commands_file].doc = commands

\* the value of keyword argument k of the call a
KwargValue(a, k) == a.kwargs[CHOOSE i \in 1..Len(a.kwargs) : a.kwargs[i][1] = k][2]

KwargNames(a) == {a.kwargs[i][1] : i \in 1..Len(a.kwargs)}

\* the field k of the entry new is the field of old merged key by key with
\* the dictionary v
MergedField(old, new, k, v) ==
    /\ k \in DOMAIN new.extra
    /\ new.extra[k].kind = "dict"
    /\ old.extra[k].kind = "dict"
    /\ DOMAIN new.extra[k].val = DOMAIN old.extra[k].val \cup DOMAIN v.val
    /\ \A key \in DOMAIN new.extra[k].val :
          new.extra[k].val[key] = IF key \in DOMAIN v.val THEN v.val[key] ELSE old.extra[k].val[key]

\* the entry new is the entry old updated by the call a
UpdatedEntry(old, new, a) ==
    /\ new.cmd_type = old.cmd_type
    /\ new.patterns = old.patterns \o a.patterns
    /\ new.function = a.function
    /\ DOMAIN new.extra = DOMAIN old.extra \cup KwargNames(a)
    /\ \A k \in DOMAIN old.extra \ KwargNames(a) : new.extra[k] = old.extra[k]
    /\ \A k \in KwargNames(a) :
          IF k \in DOMAIN old.extra /\ KwargValue(a, k).kind = "dict"
          THEN MergedField(old, new, k, KwargValue(a, k))
          ELSE new.extra[k] = KwargValue(a, k)

\* the entry new is the fresh spec of the call a
FreshEntry(new, a) ==
    /\ new.cmd_type = a.cmd_type
    /\ new.patterns = a.patterns
    /\ new.function = a.function
    /\ DOMAIN new.extra = KwargNames(a)
    /\ \A k \in KwargNames(a) : new.extra[k] = KwargValue(a, k)

\* C10: add_command on an existing type keeps the existing patterns and
\* appends the new ones without deduplication, overwrites function, merges
\* a dictionary-valued keyword field into an existing field key by key and
\* overwrites the field otherwise; on a new type it inserts a fresh spec at
\* the end of the table; every other type is left unchanged.
C10_AddCommandUpdates ==
    [][adds' # adds =>
         LET a == last'.call
         IN IF HasType(commands, a.cmd_type)
            THEN /\ Len(commands') = Len(commands)
                 /\ \A i \in 1..Len(commands) :
                       IF i = IndexOf(commands, a.cmd_type)
                       THEN UpdatedEntry(commands[i], commands'[i], a)
                       ELSE commands'[i] = commands[i]
            ELSE /\ Len(commands') = Len(commands) + 1
                 /\ \A i \in 1..Len(commands) : commands'[i] = commands[i]
                 /\ FreshEntry(commands'[Len(commands')], a)]_vars

\* the history entry without its timestamp
Logged(entry) == [transcription |-> entry.transcription, command |-> entry.command]

\* C11: command_history is append-only. A parse that returns a record other
\* than the sentinel appends exactly one entry, holding the raw
\* transcription and the returned record, at the end; a parse that returns
\* the sentinel appends nothing; no call of parse, execute, add_command or
\* get_suggestions removes, reorders or rewrites an earlier entry, and an
\* execute grows the history by at most one entry.
C11_HistoryAppendOnly ==
    [][/\ Len(command_history') \in {Len(command_history), Len(command_history) + 1}
       /\ SubSeq(command_history', 1, Len(command_history)) = command_history
       /\ (last'.op = "parse" /\ last'.exc = None /\ last'.ret.command # "unknown") =>
              /\ Len(command_history') = Len(command_history) + 1
              /\ Logged(command_history'[Len(command_history')]) =
                    [transcription |-> last'.transcription, command |-> last'.ret]
       /\ (last'.op = "parse" /\ last'.exc = None /\ last'.ret.command = "unknown") =>
              command_history' = command_history
       /\ last'.op \in {"add_command", "get_suggestions"} => command_history' = command_history
      ]_vars

\* a history of two entries, the first logged by a parse of a transcription
\* that normalization changes, and a call after them that left both in place
C11_Witness ==
    /\ Len(command_history) = 2
    /\ command_history[1].transcription = "Hello Friday "
    /\ command_history[1].command.command = "greet"
    /\ command_history[2].transcription = "open sesame"
    /\ last.op = "get_suggestions"

\* the record the last call got from parse: what parse returned, or the
\* command_data of what execute returned
LastParsed == IF last.op = "execute" THEN last.ret.command_data ELSE last.ret

KeywordHits(k, text) ==
    Cardinality({w \in 1..Len(keywords[k][2]) : Contains(text, keywords[k][2][w])})

\* C13: when no pattern matches and some keyword occurs in the normalized
\* text, parse returns the type with the highest score, the first such type
\* in keyword-table order on a tie, with inferred = true and confidence =
\* score / (number of keywords of the type), a ratio above 0 and at most 1;
\* when some pattern matches, the record returned is not an inferred one.
C13_Inference ==
    (last.op = "parse" /\ last.exc = None) =>
        /\ (TypesMatching(commands, LastText) = {} /\ ~NoKeyword(LastText)) =>
              \E k \in 1..Len(keywords) :
                 /\ last.ret.command = keywords[k][1]
                 /\ \A j \in 1..Len(keywords) : KeywordHits(j, LastText) <= KeywordHits(k, LastText)
                 /\ \A j \in 1..(k - 1) : KeywordHits(j, LastText) < KeywordHits(k, LastText)
                 /\ last.ret.inferred = TRUE
                 /\ last.ret.confidence = <<KeywordHits(k, LastText), Len(keywords[k][2])>>
                 /\ 0 < KeywordHits(k, LastText)
                 /\ KeywordHits(k, LastText) <= Len(keywords[k][2])
        /\ TypesMatching(commands, LastText) # {} => "inferred" \notin DOMAIN last.ret

\* a parse of a text no pattern matches, in which keywords of two types
\* score the same: the earlier type of the keyword table is returned
C13_Witness ==
    /\ last.op = "parse"
    /\ last.exc = None
    /\ TypesMatching(commands, LastText) = {}
    /\ KeywordHits(5, LastText) = 1
    /\ KeywordHits(7, LastText) = 1
    /\ last.ret.command = "create"
    /\ last.ret.inferred = TRUE

\* the last call is a parse that returned an 'open' record with a captured
\* app name, and the alias table of the 'open' entry is a dict
OpenMatch ==
    /\ last.op = "parse"
    /\ last.exc = None
    /\ last.ret.command = "open"
    /\ "params" \in DOMAIN last.ret
    /\ last.ret.params # <<>>
    /\ last.ret.params[1] # None
    /\ HasType(commands, "open")
    /\ "apps" \in DOMAIN commands[IndexOf(commands, "open")].extra
    /\ commands[IndexOf(commands, "open")].extra["apps"].kind = "dict"

\* the alias table of the 'open' entry, and the captured app name
OpenApps == commands[IndexOf(commands, "open")].extra["apps"].val
OpenName == last.ret.params[1]

\* C14: when the winning match is an 'open' pattern and the captured app
\* name equals a key of the alias table under case-insensitive comparison,
\* keys with upper-case letters included, target is the value mapped to
\* that key and no matched_name is set.
C14_ExactAliasAnyCase ==
    (OpenMatch /\ \E key \in DOMAIN OpenApps : lower(key) = lower(OpenName)) =>
        /\ \E key \in DOMAIN OpenApps : lower(key) = lower(OpenName) /\ last.ret.target = OpenApps[key]
        /\ "matched_name" \notin DOMAIN last.ret

C15_WitnessRaw ==
    /\ OpenMatch
    /\ lower(OpenName) \notin DOMAIN OpenApps
    /\ "matched_name" \notin DOMAIN last.ret
    /\ last.ret.target = OpenName

\* C16: every command dispatched to open_application, whatever its target,
\* gets a record with target and status back from the handler, so execute
\* reports success = true with result.target equal to the parsed target.
C16_OpenAnyTarget ==
    (last.op = "execute" /\ last.exc = None /\ last.invoked = <<"open_application">>) =>
        /\ last.ret.success = TRUE
        /\ "result" \in DOMAIN last.ret
        /\ {"target", "status"} \subseteq DOMAIN last.ret.result
        /\ last.ret.result.target = Get(last.ret.command_data, "target", "")

\* C17: when the winning match is a 'wifi' pattern, the executed action
\* agrees with the captured verb, 'disconnect' for 'disconnect' and 'off',
\* 'connect' for 'connect' and 'on', with status 'completed', whatever
\* other words the transcription contains.
C17_WifiActionFollowsVerb ==
    (/\ last.op = "execute"
     /\ last.exc = None
     /\ last.ret.command_data.command = "wifi"
     /\ "params" \in DOMAIN last.ret.command_data
     /\ last.invoked = <<"control_wifi">>) =>
        /\ last.ret.success = TRUE
        /\ last.ret.result.status = "completed"
        /\ last.ret.command_data.params[1] \in {"disconnect", "off"} =>
              last.ret.result.action = "disconnect"
        /\ last.ret.command_data.params[1] \in {"connect", "on"} =>
              last.ret.result.action = "connect"

\* the last call is an execute that dispatched a record with captured groups
\* to set_timer
TimerDispatch ==
    /\ last.op = "execute"
    /\ last.exc = None
    /\ last.invoked = <<"set_timer">>
    /\ "params" \in DOMAIN last.ret.command_data

\* s is the decimal numeral of a number up to 999
IsNumeral(s) == \E n \in 0..999 : ToString(n) = s

\* C18: when the winning match is a 'timer' pattern, params is (digits,
\* unit) and execute reports success = true with duration the integer value
\* of the digits, unit the captured unit and status 'set'; a command
\* dispatched to set_timer whose first param is not numeric gets a failed
\* result and no timer.
C18_Timer ==
    /\ (TimerDispatch /\ last.ret.command_data.command = "timer") =>
          /\ Len(last.ret.command_data.params) = 2
          /\ IsNumeral(last.ret.command_data.params[1])
          /\ last.ret.command_data.params[2] \in {"second", "minute", "hour"}
          /\ last.ret.success = TRUE
          /\ last.ret.message = "Executed timer command"
          /\ ToString(last.ret.result.duration) = last.ret.command_data.params[1]
          /\ last.ret.result.unit = last.ret.command_data.params[2]
          /\ last.ret.result.status = "set"
    /\ (/\ TimerDispatch
        /\ last.ret.command_data.params # <<>>
        /\ ~IsNumeral(last.ret.command_data.params[1])) =>
          /\ last.ret.success = FALSE
          /\ "result" \notin DOMAIN last.ret
          /\ "error" \in DOMAIN last.ret

\* an execute of a transcription the second 'timer' pattern matches, with
\* the timer set for the captured duration and unit
C18_Witness ==
    /\ TimerDispatch
    /\ last.ret.command_data.command = "timer"
    /\ last.ret.command_data.params = <<"5", "hour">>
    /\ last.ret.result = [duration |-> 5, unit |-> "hour", status |-> "set"]

\* an execute that dispatched a non-numeric first param to set_timer
C18_WitnessNonNumeric ==
    /\ TimerDispatch
    /\ last.ret.command_data.params = <<"me">>
    /\ last.ret.success = FALSE

\* C19: executing a command whose function is create_item or find_files
\* returns an explicit 'not implemented' result and never reports success =
\* true.
C19_StubsNotImplemented ==
    (/\ last.op = "execute"
     /\ last.exc = None
     /\ Get(last.ret.command_data, "function", None) \in {"create_item", "find_files"}) =>
        /\ last.ret.success = FALSE
        /\ Contains(lower(last.ret.message), "not implemented")

\* C20: _record produces a bounded clip: for every stream of audio chunks
\* it eventually returns.
C20_RecordReturns == <>(recording.pc = "done")

\* The stopping rule of C20: the counter is 0 after a non-silent chunk and
\* one more after a silent one, every chunk read in the second loop is
\* kept, and _record returns exactly when the counter reaches
\* max_silent_chunks.
C20_StopRule ==
    [][recording.pc = "record" =>
         /\ recording'.silent_chunks =
               IF _is_silent(recording'.data[1]) THEN recording.silent_chunks + 1 ELSE 0
         /\ recording'.frames > recording.frames \/ recording'.frames = MaxFrames
         /\ recording'.pc = "done" <=> recording'.silent_chunks = max_silent_chunks
         /\ recording'.pc \in {"record", "done"}]_vars

\* _record has returned a clip shorter than MaxFrames chunks
C20_Returned ==
    /\ recording.pc = "done"
    /\ recording.silent_chunks = max_silent_chunks
    /\ recording.frames < MaxFrames

\* C21: every result execute returns has as command_data exactly the record
\* parse returned for the call; success = true if and only if a result
\* field is present, and then exactly one handler was invoked and the
\* message is "Executed <type> command"; an error field is present only
\* with success = false and a handler that raised; no execute invokes more
\* than one handler.
C21_ResultShape ==
    (last.op = "execute" /\ last.exc = None) =>
        /\ last.ret.command_data = parse(commands, last.transcription).ret
        /\ last.ret.success \in BOOLEAN
        /\ last.ret.success <=> "result" \in DOMAIN last.ret
        /\ last.ret.success =>
              /\ Len(last.invoked) = 1
              /\ last.ret.message = "Executed " \o last.ret.command_data.command \o " command"
        /\ "error" \in DOMAIN last.ret =>
              /\ last.ret.success = FALSE
              /\ Len(last.invoked) = 1
              /\ Call(last.invoked[1], last.ret.command_data, last.opened).exc # None
        /\ Len(last.invoked) <= 1

\* an execute of an inferred command whose handler returned: the result is
\* there, and command_data is the record the history holds for the call
C21_Witness ==
    /\ last.op = "execute"
    /\ last.exc = None
    /\ last.ret.success = TRUE
    /\ "result" \in DOMAIN last.ret
    /\ "inferred" \in DOMAIN last.ret.command_data
    /\ command_history # <<>>
    /\ command_history[Len(command_history)].command = last.ret.command_data

\* C22: add_command is all-or-nothing: a call that raises leaves the
\* command table in memory exactly as it was before the call.
C22_AddCommandAllOrNothing ==
    [][(last'.op = "add_command" /\ last'.exc # None) => commands' = commands]_vars

\* C23: adding a new command type never shadows the existing ones: every
\* transcription that some pattern matched before an add_command call on a
\* type not yet in the table is parsed after the call as before it, with
\* the same command, function, params and enriched fields (or the same
\* failure); only transcriptions no pattern matched before can change.
C23_NewTypeNeverShadows ==
    [][(last'.op = "add_command" /\ adds' = adds + 1 /\ last'.new) =>
         \A t \in Transcriptions :
            TypesMatching(commands, strip(lower(t))) # {} =>
               parse(commands', t) = parse(commands, t)]_vars

\* the table after add_command has added the type 'greet': 'open sesame',
\* which a pattern of 'greet' matches too, is still an 'open' command, and
\* 'Hello Friday ', which no pattern matched before, is now a 'greet'
C23_Witness ==
    /\ last.op = "add_command"
    /\ last.new
    /\ last.call.cmd_type = "greet"
    /\ TypesMatching(loaded, "hello friday") = {}
    /\ Cardinality(TypesMatching(commands, "open sesame")) = 2
    /\ parse(commands, "open sesame").ret.command = "open"
    /\ parse(commands, "Hello Friday ").ret.command = "greet"

====
